---- MODULE Spec2Model ----
(***************************************************************************)
(* A model of whoosh, a fan-control daemon for Linux hwmon.                *)
(*                                                                         *)
(* The state is the daemon's own (the position of main / main_loop, the    *)
(* State struct, the locals of a reload and of a tick, the two signal      *)
(* flags) together with the files it touches (/etc/whoosh.toml and the     *)
(* pwmN / pwmN_enable files of sysfs).  Temperatures are inputs read from  *)
(* sysfs at every tick.                                                    *)
(*                                                                         *)
(* Environment assumptions, stated once:                                   *)
(*  - only the daemon writes pwmN and pwmN_enable;                         *)
(*  - within one configuration two fans never name the same pwmN file;     *)
(*  - the restore write of Drop for ControlledFan succeeds (its failure is *)
(*    only logged by the code and changes no state of the daemon);         *)
(*  - a panic unwinds (the default profile), so locals are dropped.        *)
(*                                                                         *)
(* Whether integer overflow is checked depends on the build profile; both  *)
(* outcomes of the u8 subtraction in curve_lerp are modelled.              *)
(*                                                                         *)
(* Spec and FairSpec are the daemon.  LerpSpec applies curve_lerp to       *)
(* bounded curves and readings, and ConvergeSpec repeats the tick of one   *)
(* fan under a constant target; in both the daemon's variables stand still *)
(* and `probe` holds the call.                                             *)
(***************************************************************************)
EXTENDS Integers, Sequences, FiniteSets, TLC

VARIABLES
    pc,             \* position of the main thread (see PcValues)
    stop,           \* AtomicBool set by SIGTERM / SIGINT
    reload,         \* AtomicBool set by SIGHUP / SIGUSR1
    disk,           \* content of /etc/whoosh.toml: a configuration id or Broken
    state,          \* main_loop's `state: State`, NoState outside main_loop
    old_config,     \* main_loop's local `old_config` during a reload
    new_config,     \* main_loop's local `new_config` during a reload
    temps,          \* the tick's local `temps` map
    todo,           \* fans the tick's fan loop has not visited yet
    enable,         \* content of each pwmN_enable file
    pwm,            \* content of each pwmN file
    kernel_mode,    \* history: pwmN_enable as the kernel had it at process entry
    actuation,      \* history: what the fan loop's latest iteration did
    last_event,     \* history: how the latest reload attempt or failed tick ended
    ticks_after_stop, \* history: ticks started since stop was set (capped)
    probe           \* a call of curve_lerp or of the rate limit taken on its own

vars == <<pc, stop, reload, disk, state, old_config, new_config, temps, todo,
          enable, pwm, kernel_mode, actuation, last_event, ticks_after_stop, probe>>

-----------------------------------------------------------------------------
(* Bounds of the model.                                                    *)

\* how many distinct readings a temperature file can yield
NumTemps == 2

\* the readings: 25000, 45000, ... milli-degrees
TempValues == {25000 + 20000 * i : i \in 0..(NumTemps - 1)}

\* what a pwmN file can hold at process entry
InitSpeeds == {50, 115}

\* what a pwmN_enable file can hold at process entry
KernelModes == {0, 2}

\* the longest curve curve_lerp is called with on its own
MaxPoints == 3

\* the "<T>C" and "<P>%" a point_spec of such a curve is written with
CurveDegrees == {20, 30, 45, 60}

CurvePercents == {0, 20, 80, 100}

\* the readings curve_lerp is called with on its own
ProbeTemps == {10000, 20000, 30000, 33333, 45000, 59999, 60000, 70000}

\* what the fan loop taken on its own starts from: the content of pwmN, the
\* target the curve gives, and min_change and max_change in percent
ProbeSpeeds == {0, 50, 115, 255}

ProbeTargets == {0, 51, 127, 204, 255}

MinChangePercents == {0, 5, 10}

MaxChangePercents == {1, 10, 100}

-----------------------------------------------------------------------------
(* Plain values.                                                           *)

EmptyMap == [x \in {} |-> 0]

NoState == [config |-> "none"]

NoActuation == [fan |-> "none", kind |-> "none", current |-> 0, target |-> 0, new_speed |-> 0]

NoFan == [path_prefix |-> <<>>, initial_mode |-> 0]

NoEvent == [kind |-> "none"]

NoProbe == [stage |-> "none"]

Event(kind) == [kind |-> kind]

ReloadEvent(kind, old, new) == [kind |-> kind, old |-> old, new |-> new]

Broken == "broken"

NotFound == -1

RETRY_MS == 2000

\* `as u8`: the low eight bits
AsU8(x) == x % 256

Abs(x) == IF x < 0 THEN -x ELSE x

\* Rust's integer `/`: truncation toward zero
TruncDiv(a, b) ==
    IF (a >= 0) = (b > 0) THEN Abs(a) \div Abs(b) ELSE -(Abs(a) \div Abs(b))

\* isize::signum
Signum(x) == IF x > 0 THEN 1 ELSE IF x < 0 THEN -1 ELSE 0

\* isize::clamp(lo, hi)
Clamp(x, lo, hi) == IF x < lo THEN lo ELSE IF x > hi THEN hi ELSE x

\* the iteration orders a HashMap with key set S can produce
Orders(S) ==
    {o \in [1..Cardinality(S) -> S] : \A i, j \in 1..Cardinality(S) : o[i] = o[j] => i = j}

-----------------------------------------------------------------------------
(* sysfs: /sys/class/hwmon.                                                *)

\* hwmonI/name for I = 0, 1 (position i of the sequence is hwmon(i-1))
hwmon_names == <<"cpu", "board">>

\* the tempN_input files that exist, as <<I, N>>
TempInputs == {<<0, 1>>, <<0, 2>>}

\* the tempN_label files, as <<I, N>> -> label
TempLabels == (<<0, 1>> :> "Tctl") @@ (<<0, 2>> :> "Tdie")

\* the pwmN (and pwmN_enable) files that exist, as <<I, N>>
PwmPaths == {<<1, 1>>, <<1, 2>>}

-----------------------------------------------------------------------------
(* /etc/whoosh.toml: the configurations the file can hold.  A point_spec   *)
(* "30C/20%" is written <<30, 20>>; a string without '/' is a tuple of     *)
(* length 1.                                                               *)

ByNameIndex(h, i) == [kind |-> "index", hwmon_name |-> h, index |-> i, label |-> ""]

ByNameLabel(h, l) == [kind |-> "label", hwmon_name |-> h, index |-> 0, label |-> l]

Fan(h, i, input, curve) == [hwmon_name |-> h, index |-> i, input |-> input, curve |-> curve]

Composite(inputs, mode, threshold) == [inputs |-> inputs, mode |-> mode, threshold |-> threshold]

Curve1 == << <<30, 20>>, <<60, 80>> >>

\* The composites of a configuration are a map, as in Config; `declared` is
\* the order in which the file lists them.

\* dead band 5%, at most 10% per tick; the second fan names a curve that is
\* not defined
ConfigA ==
    [poll_period |-> 1000, min_change |-> 5, max_change |-> 10,
     sensors    |-> [a |-> ByNameIndex("cpu", 1)],
     composites |-> EmptyMap,
     declared   |-> <<>>,
     curves     |-> [c1 |-> Curve1],
     fans       |-> [f1 |-> Fan("board", 1, "a", "c1"), f2 |-> Fan("board", 2, "a", "c9")]]

\* one fan on a Max composite d of a Max composite c of two sensors and of a
\* name nothing provides; no dead band, no rate limit
ConfigB ==
    [poll_period |-> 500, min_change |-> 0, max_change |-> 100,
     sensors    |-> [a |-> ByNameLabel("cpu", "Tctl"), b |-> ByNameIndex("cpu", 2)],
     composites |-> [c |-> Composite(<<"a", "zz", "b">>, "max", 0),
                     d |-> Composite(<<"c">>, "max", 0)],
     declared   |-> <<"c", "d">>,
     curves     |-> [c1 |-> Curve1],
     fans       |-> [f1 |-> Fan("board", 1, "d", "c1")]]

\* a Mean composite
ConfigM ==
    [poll_period |-> 500, min_change |-> 0, max_change |-> 100,
     sensors    |-> [a |-> ByNameIndex("cpu", 1)],
     composites |-> [m |-> Composite(<<"a">>, "mean", 0)],
     declared   |-> <<"m">>,
     curves     |-> [c1 |-> Curve1],
     fans       |-> [f2 |-> Fan("board", 2, "m", "c1")]]

\* a curve without points and a curve whose temps fall
ConfigE ==
    [poll_period |-> 1000, min_change |-> 5, max_change |-> 10,
     sensors    |-> [a |-> ByNameIndex("cpu", 1)],
     composites |-> EmptyMap,
     declared   |-> <<>>,
     curves     |-> [c1 |-> <<>>, c2 |-> << <<60, 80>>, <<30, 20>> >>],
     fans       |-> [f1 |-> Fan("board", 1, "a", "c1")]]

ConfigIds == {"A", "B", "M", "E"}

ConfigOf(id) ==
    CASE id = "A" -> ConfigA
      [] id = "B" -> ConfigB
      [] id = "M" -> ConfigM
      [] id = "E" -> ConfigE

DiskValues == ConfigIds \cup {Broken}

\* Config::load: Ok(config) or Err
Config_load(d) == IF d = Broken THEN [ok |-> FALSE, config |-> "none"] ELSE [ok |-> TRUE, config |-> d]

-----------------------------------------------------------------------------
(* fan.rs                                                                  *)

\* ControlledFan::new(path_prefix); io_error: the read or the write fails
ControlledFan_new(path, en, io_error) ==
    IF path \notin PwmPaths \/ io_error
    THEN [ok |-> FALSE, fan |-> NoFan, enable |-> en]
    ELSE [ok |-> TRUE,
          fan |-> [path_prefix |-> path, initial_mode |-> en[path]],
          enable |-> [en EXCEPT ![path] = 1]]

\* a Drop that restores nothing
ControlledFan_drop_norestore(en, fan) == en

\* Drop for ControlledFan: write initial_mode to {path_prefix}_enable
ControlledFan_drop(en, fan) == [en EXCEPT ![fan.path_prefix] = fan.initial_mode]

\* dropping a HashMap<String, ControlledFan> drops every handle in it
RECURSIVE drop_fans(_, _)
drop_fans(en, fans) ==
    IF DOMAIN fans = {} THEN en
    ELSE LET n == CHOOSE n \in DOMAIN fans : TRUE
         IN drop_fans(ControlledFan_drop(en, fans[n]),
                      [m \in DOMAIN fans \ {n} |-> fans[m]])

\* ControlledFan::get_speed
get_speed(fan, files) == files[fan.path_prefix]

\* ControlledFan::set_speed
set_speed(fan, files, new_speed) == [files EXCEPT ![fan.path_prefix] = new_speed]

-----------------------------------------------------------------------------
(* config.rs                                                               *)

\* hwmon_names.iter().enumerate().find(|(_i, name)| *name == hwmon_name)
hwmon_index(name) ==
    IF \E i \in 1..Len(hwmon_names) : hwmon_names[i] = name
    THEN (CHOOSE i \in 1..Len(hwmon_names) :
              hwmon_names[i] = name /\ \A j \in 1..(i - 1) : hwmon_names[j] # name) - 1
    ELSE NotFound

\* no path: the sensor did not resolve
NoPath == <<>>

\* the path one Sensor resolves to, or NoPath (config.rs 117-157, 161-173);
\* every label file of this sysfs has its input file, so the panic of
\* config.rs 156 has no case here
sensor_path(sensor) ==
    LET h == hwmon_index(sensor.hwmon_name) IN
    IF h = NotFound THEN NoPath
    ELSE IF sensor.kind = "index"
         THEN IF <<h, sensor.index>> \in TempInputs THEN <<h, sensor.index>> ELSE NoPath
         ELSE LET hits == {p \in DOMAIN TempLabels : p[1] = h /\ TempLabels[p] = sensor.label}
              IN IF hits = {} THEN NoPath ELSE CHOOSE p \in hits : TRUE

\* Config::find_sensors
find_sensors(cfg) ==
    IF \E n \in DOMAIN cfg.sensors : sensor_path(cfg.sensors[n]) = NoPath
    THEN [ok |-> FALSE, sensor_paths |-> EmptyMap]
    ELSE [ok |-> TRUE, sensor_paths |-> [n \in DOMAIN cfg.sensors |-> sensor_path(cfg.sensors[n])]]

\* an error path that forgets the handles opened so far instead of dropping them
find_fans_err_leak(en, fans) == [ok |-> FALSE, fans |-> EmptyMap, enable |-> en]

\* Config::find_fans returns Err through `?`: the local map `fans` is dropped
find_fans_err(en, fans) == [ok |-> FALSE, fans |-> EmptyMap, enable |-> drop_fans(en, fans)]

\* Config::find_fans, from the i-th fan of the iteration order on; `fans` is
\* the local map built so far, dropped when the function returns Err
RECURSIVE find_fans_from(_, _, _, _, _, _)
find_fans_from(cfg, en, order, fail, i, fans) ==
    IF i > Len(order) THEN [ok |-> TRUE, fans |-> fans, enable |-> en]
    ELSE LET fan == cfg.fans[order[i]]
             h   == hwmon_index(fan.hwmon_name)
             r   == ControlledFan_new(<<h, fan.index>>, en, fail = i - 1)
         IN IF h = NotFound
            THEN find_fans_err(en, fans)
            ELSE IF ~r.ok
            THEN find_fans_err(r.enable, fans)
            ELSE find_fans_from(cfg, r.enable, order, fail, i + 1,
                                (order[i] :> r.fan) @@ fans)

\* a discovery that opens no fan
find_fans_none(cfg, en, order, fail) == [ok |-> TRUE, fans |-> EmptyMap, enable |-> en]

find_fans(cfg, en, order, fail) == find_fans_from(cfg, en, order, fail, 1, EmptyMap)

\* one point_spec: (temp * 1000, (fan_percent * 255 / 100) as u8)
parse_point(point_spec) ==
    [temp |-> point_spec[1] * 1000, fan_speed |-> AsU8(TruncDiv(point_spec[2] * 255, 100))]

\* Config::parse_curves
parse_curves(cfg) ==
    IF \E n \in DOMAIN cfg.curves : \E i \in 1..Len(cfg.curves[n]) : Len(cfg.curves[n][i]) # 2
    THEN [ok |-> FALSE, curves |-> EmptyMap]
    ELSE [ok |-> TRUE,
          curves |-> [n \in DOMAIN cfg.curves |->
                        [i \in 1..Len(cfg.curves[n]) |-> parse_point(cfg.curves[n][i])]]]

-----------------------------------------------------------------------------
(* main.rs: State::new and curve_lerp                                      *)

\* pct * 255 / 100
to_pwm_scale(pct) == TruncDiv(pct * 255, 100)

\* State::new(config) on the enable files `en`.  The Config moved in is
\* `id` with `composites`, the iteration order of its composites map, which
\* stays what it is for the life of that Config.  `order` is the iteration
\* order of config.fans; `fail` is where an I/O error strikes: -1 before any
\* fan is opened, k in 0..n-1 at the opening of fan k+1, n nowhere.
State_new(id, composites, en, order, fail) ==
    LET cfg     == ConfigOf(id)
        sensors == find_sensors(cfg)
        fans    == find_fans(cfg, en, order, fail)
        curves  == parse_curves(cfg)
    IN IF fail = -1 \/ ~sensors.ok THEN [ok |-> FALSE, state |-> NoState, enable |-> en]
       ELSE IF ~fans.ok THEN [ok |-> FALSE, state |-> NoState, enable |-> fans.enable]
       ELSE IF ~curves.ok
       THEN [ok |-> FALSE, state |-> NoState, enable |-> drop_fans(fans.enable, fans.fans)]
       ELSE [ok |-> TRUE,
             state |-> [config |-> id,
                        composites |-> composites,
                        sensor_paths |-> sensors.sensor_paths,
                        fans |-> fans.fans,
                        curves |-> curves.curves,
                        min_change |-> to_pwm_scale(cfg.min_change),
                        max_change |-> to_pwm_scale(cfg.max_change)],
             enable |-> fans.enable]

\* the iteration orders the composites map of a loaded configuration can have
CompositeOrders(id) == Orders(DOMAIN ConfigOf(id).composites)

\* the (order, fail) pairs State::new can meet for configuration id
Outcomes(id) ==
    LET names == DOMAIN ConfigOf(id).fans
    IN {<<o, f>> : o \in Orders(names), f \in (-1)..Cardinality(names)}

\* a lerp that leaves out the window's lower speed
RECURSIVE curve_lerp_from_nobase(_, _, _)
curve_lerp_from_nobase(temp, curve, i) ==
    IF i >= Len(curve) THEN curve[Len(curve)].fan_speed
    ELSE IF temp >= curve[i].temp /\ temp < curve[i + 1].temp
    THEN AsU8(TruncDiv((temp - curve[i].temp)
                           * AsU8(curve[i + 1].fan_speed - curve[i].fan_speed),
                       curve[i + 1].temp - curve[i].temp))
    ELSE curve_lerp_from_nobase(temp, curve, i + 1)

\* curve_lerp, from window i on; the u8 subtraction is taken modulo 256
RECURSIVE curve_lerp_from(_, _, _)
curve_lerp_from(temp, curve, i) ==
    IF i >= Len(curve) THEN curve[Len(curve)].fan_speed
    ELSE LET lower == curve[i]
             upper == curve[i + 1]
             normalised_temp  == temp - lower.temp
             upscale_factor   == AsU8(upper.fan_speed - lower.fan_speed)
             downscale_factor == upper.temp - lower.temp
         IN IF temp >= lower.temp /\ temp < upper.temp
            THEN AsU8(TruncDiv(normalised_temp * upscale_factor, downscale_factor)
                      + lower.fan_speed)
            ELSE curve_lerp_from(temp, curve, i + 1)

curve_lerp(temp, curve) ==
    IF temp < curve[1].temp THEN curve[1].fan_speed ELSE curve_lerp_from(temp, curve, 1)

\* curve_lerp panics: `curve[0]` on an empty curve (main.rs 76), or, in a
\* build with overflow checks, the u8 subtraction of main.rs 84 in the first
\* window that holds temp, when its upper speed is below its lower speed
curve_lerp_panics(temp, curve, overflow_checks) ==
    \/ Len(curve) = 0
    \/ /\ overflow_checks
       /\ \E i \in 1..(Len(curve) - 1) :
             /\ temp >= curve[i].temp /\ temp < curve[i + 1].temp
             /\ \A j \in 1..(i - 1) : ~(temp >= curve[j].temp /\ temp < curve[j + 1].temp)
             /\ curve[i + 1].fan_speed < curve[i].fan_speed

\* one call of curve_lerp: a panic or the u8 returned
lerp_call(temp, curve, overflow_checks) ==
    IF curve_lerp_panics(temp, curve, overflow_checks)
    THEN [panic |-> TRUE, value |-> 0]
    ELSE [panic |-> FALSE, value |-> curve_lerp(temp, curve)]

\* a rate limit that does not clamp the delta
rate_limit_noclamp(current_speed, target_speed, min_change, max_change) ==
    LET delta == target_speed - current_speed IN
    IF ~(delta > min_change \/ delta < -min_change)
    THEN [kind |-> "small", new_speed |-> current_speed]
    ELSE [kind |-> "write", new_speed |-> AsU8(current_speed + delta)]

\* a rate limit whose dead band excludes its edge: >= for >
rate_limit_ge(current_speed, target_speed, min_change, max_change) ==
    LET delta == target_speed - current_speed IN
    IF ~(delta >= min_change \/ delta <= -min_change)
    THEN [kind |-> "small", new_speed |-> current_speed]
    ELSE IF delta >= 0
    THEN [kind |-> "write", new_speed |-> AsU8(current_speed + Clamp(delta, 0, max_change))]
    ELSE [kind |-> "write", new_speed |-> AsU8(current_speed + Clamp(delta, -max_change, 0))]

\* a rate limit that clamps the magnitude and loses the sign
rate_limit_nosign(current_speed, target_speed, min_change, max_change) ==
    LET delta == target_speed - current_speed IN
    IF ~(delta > min_change \/ delta < -min_change)
    THEN [kind |-> "small", new_speed |-> current_speed]
    ELSE [kind |-> "write", new_speed |-> AsU8(current_speed + Clamp(Abs(delta), 0, max_change))]

\* a rate limit that always steps by max_change
rate_limit_fullstep(current_speed, target_speed, min_change, max_change) ==
    LET delta == target_speed - current_speed IN
    IF ~(delta > min_change \/ delta < -min_change)
    THEN [kind |-> "small", new_speed |-> current_speed]
    ELSE [kind |-> "write", new_speed |-> AsU8(current_speed + Signum(delta) * max_change)]

\* the rate limit of one fan (main.rs 191-202): what the tick does with it
rate_limit(current_speed, target_speed, min_change, max_change) ==
    LET delta == target_speed - current_speed IN
    IF ~(delta > min_change \/ delta < -min_change)
    THEN [kind |-> "small", new_speed |-> current_speed]
    ELSE IF Signum(delta) = 1
    THEN [kind |-> "write", new_speed |-> AsU8(current_speed + Clamp(delta, 0, max_change))]
    ELSE IF Signum(delta) = -1
    THEN [kind |-> "write", new_speed |-> AsU8(current_speed + Clamp(delta, -max_change, 0))]
    ELSE [kind |-> "unreachable", new_speed |-> current_speed]

\* a maximum that is the first input
MaxOf_first(inputs) == inputs[1]

\* inputs.iter().max()
MaxOf(inputs) == CHOOSE v \in {inputs[i] : i \in 1..Len(inputs)} :
                     \A i \in 1..Len(inputs) : inputs[i] <= v

\* the composites loop (main.rs 141-166) from the i-th composite of the
\* iteration order on; panic: the `_ => todo!()` arm was taken
RECURSIVE eval_composites(_, _, _, _)
eval_composites(cfg, order, i, tmap) ==
    IF i > Len(order) THEN [panic |-> FALSE, temps |-> tmap]
    ELSE LET composite == cfg.composites[order[i]]
             present   == SelectSeq(composite.inputs, LAMBDA n : n \in DOMAIN tmap)
             inputs    == [k \in 1..Len(present) |-> tmap[present[k]]]
         IN IF Len(inputs) = 0 THEN eval_composites(cfg, order, i + 1, tmap)
            ELSE IF composite.mode = "max"
            THEN eval_composites(cfg, order, i + 1, (order[i] :> MaxOf(inputs)) @@ tmap)
            ELSE [panic |-> TRUE, temps |-> tmap]

\* a reload that keeps the old handles while the new State is built
reset_fans_keep(st, en) == [state |-> st, enable |-> en]

\* `state.fans = HashMap::new()` (main.rs 113): the old map is dropped
reset_fans(st, en) ==
    [state |-> [st EXCEPT !.fans = EmptyMap], enable |-> drop_fans(en, st.fans)]

-----------------------------------------------------------------------------
(* The state machine.                                                      *)

\* the pwmN_enable files at process entry: the outputs are in different modes
InitEnable == {e \in [PwmPaths -> KernelModes] : \A p, q \in PwmPaths : e[p] = e[q] => p = q}

\* the pwmN files at process entry: the fans run at the same speed
InitPwm == {[p \in PwmPaths |-> s] : s \in InitSpeeds}

PcValues == {"main", "retry", "loop", "iter", "reload_dropped", "tick", "fans",
             "sleep", "exited", "panicked"}

Terminated == pc \in {"exited", "panicked"}

Running == state # NoState

\* the fan handles main_loop owns
Handles == IF Running THEN state.fans ELSE EmptyMap

Init ==
    /\ pc = "main"
    /\ stop = FALSE
    /\ reload = FALSE
    /\ disk \in DiskValues
    /\ state = NoState
    /\ old_config = "none"
    /\ new_config = "none"
    /\ temps = EmptyMap
    /\ todo = {}
    /\ enable \in InitEnable
    /\ pwm \in InitPwm
    /\ kernel_mode = enable
    /\ actuation = NoActuation
    /\ last_event = NoEvent
    /\ ticks_after_stop = 0
    /\ probe = NoProbe

\* main.rs 223, 234-235: the outer loop finds stop set; main returns Ok(())
MainExit ==
    /\ pc = "main" /\ stop
    /\ pc' = "exited"
    /\ UNCHANGED <<probe, stop, reload, disk, state, old_config, new_config, temps, todo,
                   enable, pwm, kernel_mode, actuation, last_event, ticks_after_stop>>

\* main.rs 223-224, 95-96: main_loop is entered, loads the configuration and
\* builds the State
MainLoopStart ==
    /\ pc = "main" /\ ~stop
    /\ Config_load(disk).ok
    /\ \E co \in CompositeOrders(disk) : \E oc \in Outcomes(disk) :
          LET r == State_new(disk, co, enable, oc[1], oc[2]) IN
          /\ r.ok
          /\ state' = r.state
          /\ enable' = r.enable
    /\ pc' = "loop"
    /\ UNCHANGED <<probe, stop, reload, disk, old_config, new_config, temps, todo,
                   pwm, kernel_mode, actuation, last_event, ticks_after_stop>>

\* main.rs 95-96, 226-229: Config::load or State::new fails; main_loop returns
\* Err and main goes to sleep RETRY_MS
MainLoopStartErr ==
    /\ pc = "main" /\ ~stop
    /\ \/ ~Config_load(disk).ok /\ enable' = enable
       \/ /\ Config_load(disk).ok
          /\ \E co \in CompositeOrders(disk) : \E oc \in Outcomes(disk) :
                LET r == State_new(disk, co, enable, oc[1], oc[2]) IN
                /\ ~r.ok
                /\ enable' = r.enable
    /\ pc' = "retry"
    /\ UNCHANGED <<probe, stop, reload, disk, state, old_config, new_config, temps, todo,
                   pwm, kernel_mode, actuation, last_event, ticks_after_stop>>

\* main.rs 229: the RETRY_MS sleep ends
RetryWait ==
    /\ pc = "retry"
    /\ pc' = "main"
    /\ last_event' = NoEvent
    /\ UNCHANGED <<probe, stop, reload, disk, state, old_config, new_config, temps, todo,
                   enable, pwm, kernel_mode, actuation, ticks_after_stop>>

\* main.rs 97, 207, 225: main_loop finds stop set and returns Ok(()); its
\* State is dropped; main breaks and returns Ok(())
LoopExit ==
    /\ pc = "loop" /\ stop
    /\ enable' = drop_fans(enable, state.fans)
    /\ state' = NoState
    /\ pc' = "exited"
    /\ last_event' = NoEvent
    /\ UNCHANGED <<probe, stop, reload, disk, old_config, new_config, temps, todo,
                   pwm, kernel_mode, actuation, ticks_after_stop>>

\* main.rs 97: stop is not set, the loop body is entered
LoopEnter ==
    /\ pc = "loop" /\ ~stop
    /\ pc' = "iter"
    /\ last_event' = NoEvent
    /\ UNCHANGED <<probe, stop, reload, disk, state, old_config, new_config, temps, todo,
                   enable, pwm, kernel_mode, actuation, ticks_after_stop>>

\* main.rs 98: reload is not set
NoReload ==
    /\ pc = "iter" /\ ~reload
    /\ pc' = "tick"
    /\ UNCHANGED <<probe, stop, reload, disk, state, old_config, new_config, temps, todo,
                   enable, pwm, kernel_mode, actuation, last_event, ticks_after_stop>>

\* main.rs 98-108: reload is set and Config::load fails: `continue`
ReloadLoadErr ==
    /\ pc = "iter" /\ reload
    /\ ~Config_load(disk).ok
    /\ pc' = "loop"
    /\ last_event' = Event("load_failed")
    /\ UNCHANGED <<probe, stop, reload, disk, state, old_config, new_config, temps, todo,
                   enable, pwm, kernel_mode, actuation, ticks_after_stop>>

\* main.rs 98-113: reload is set, the new configuration loads, the old one is
\* moved out of the State and the fans are reset
ReloadDropFans ==
    /\ pc = "iter" /\ reload
    /\ Config_load(disk).ok
    /\ new_config' = Config_load(disk).config
    /\ old_config' = state.config
    /\ state' = reset_fans(state, enable).state
    /\ enable' = reset_fans(state, enable).enable
    /\ pc' = "reload_dropped"
    /\ last_event' = NoEvent
    /\ UNCHANGED <<probe, stop, reload, disk, temps, todo, pwm, kernel_mode, actuation,
                   ticks_after_stop>>

\* main.rs 114-115, 121: State::new(new_config) succeeds; the assignment
\* drops what `state` still held
ReloadNewState ==
    /\ pc = "reload_dropped"
    /\ \E co \in CompositeOrders(new_config) : \E oc \in Outcomes(new_config) :
          LET r == State_new(new_config, co, enable, oc[1], oc[2]) IN
          /\ r.ok
          /\ state' = r.state
          /\ enable' = drop_fans(r.enable, state.fans)
    /\ reload' = FALSE
    /\ pc' = "tick"
    /\ last_event' = ReloadEvent("reloaded", old_config, new_config)
    /\ old_config' = "none" /\ new_config' = "none"
    /\ UNCHANGED <<probe, stop, disk, temps, todo, pwm, kernel_mode, actuation, ticks_after_stop>>

\* main.rs 114-121: State::new(new_config) fails and State::new(old_config)
\* succeeds
ReloadRevert ==
    /\ pc = "reload_dropped"
    /\ \E co \in CompositeOrders(new_config) :
       \E oc1 \in Outcomes(new_config) : \E oc2 \in Outcomes(old_config) :
          LET r1 == State_new(new_config, co, enable, oc1[1], oc1[2])
              r2 == State_new(old_config, state.composites, r1.enable, oc2[1], oc2[2])
          IN /\ ~r1.ok
             /\ r2.ok
             /\ state' = r2.state
             /\ enable' = drop_fans(r2.enable, state.fans)
    /\ reload' = FALSE
    /\ pc' = "tick"
    /\ last_event' = ReloadEvent("reverted", old_config, new_config)
    /\ old_config' = "none" /\ new_config' = "none"
    /\ UNCHANGED <<probe, stop, disk, temps, todo, pwm, kernel_mode, actuation, ticks_after_stop>>

\* main.rs 114-118: both constructions fail; `?` returns the error, the rest
\* of `state` is dropped and main goes to sleep RETRY_MS
ReloadPropagate ==
    /\ pc = "reload_dropped"
    /\ \E co \in CompositeOrders(new_config) :
       \E oc1 \in Outcomes(new_config) : \E oc2 \in Outcomes(old_config) :
          LET r1 == State_new(new_config, co, enable, oc1[1], oc1[2])
              r2 == State_new(old_config, state.composites, r1.enable, oc2[1], oc2[2])
          IN /\ ~r1.ok
             /\ ~r2.ok
             /\ enable' = drop_fans(r2.enable, state.fans)
    /\ state' = NoState
    /\ pc' = "retry"
    /\ last_event' = ReloadEvent("propagated", old_config, new_config)
    /\ old_config' = "none" /\ new_config' = "none"
    /\ UNCHANGED <<probe, stop, reload, disk, temps, todo, pwm, kernel_mode, actuation,
                   ticks_after_stop>>

\* a tick starts (main.rs 124): one more tick since stop was set
tick_started == IF stop THEN (IF ticks_after_stop < 2 THEN ticks_after_stop + 1 ELSE 2)
                ELSE ticks_after_stop

\* a sensor failure after which main_loop's State is not dropped
TickSensorErr_keep ==
    /\ pc = "tick"
    /\ DOMAIN state.sensor_paths # {}
    /\ pc' = "retry"
    /\ actuation' = NoActuation
    /\ last_event' = Event("sensor_error")
    /\ ticks_after_stop' = tick_started
    /\ UNCHANGED <<probe, stop, reload, disk, state, old_config, new_config, temps, todo, enable,
                   pwm, kernel_mode>>

\* main.rs 124-136, 226-229: reading or parsing a sensor fails; `?` returns
\* the error, `state` is dropped and main goes to sleep RETRY_MS
TickSensorErr ==
    /\ pc = "tick"
    /\ DOMAIN state.sensor_paths # {}
    /\ enable' = drop_fans(enable, state.fans)
    /\ state' = NoState
    /\ pc' = "retry"
    /\ actuation' = NoActuation
    /\ last_event' = Event("sensor_error")
    /\ ticks_after_stop' = tick_started
    /\ UNCHANGED <<probe, stop, reload, disk, old_config, new_config, temps, todo, pwm, kernel_mode>>

\* main.rs 124-166: every sensor is read and the composites are evaluated
TickRead ==
    /\ pc = "tick"
    /\ \E readings \in [DOMAIN state.sensor_paths -> TempValues] :
          LET r == eval_composites(ConfigOf(state.config), state.composites, 1, readings) IN
          /\ ~r.panic
          /\ temps' = r.temps
    /\ todo' = DOMAIN ConfigOf(state.config).fans
    /\ pc' = IF todo' = {} THEN "sleep" ELSE "fans"
    /\ actuation' = NoActuation
    /\ last_event' = NoEvent
    /\ ticks_after_stop' = tick_started
    /\ UNCHANGED <<probe, stop, reload, disk, state, old_config, new_config, enable, pwm, kernel_mode>>

\* main.rs 160-163: a composite whose mode is not Max reaches todo!(); the
\* panic unwinds main_loop and main, dropping `state`
TickPanic ==
    /\ pc = "tick"
    /\ \E readings \in [DOMAIN state.sensor_paths -> TempValues] :
          eval_composites(ConfigOf(state.config), state.composites, 1, readings).panic
    /\ enable' = drop_fans(enable, state.fans)
    /\ state' = NoState
    /\ pc' = "panicked"
    /\ actuation' = NoActuation
    /\ last_event' = NoEvent
    /\ ticks_after_stop' = tick_started
    /\ UNCHANGED <<probe, stop, reload, disk, old_config, new_config, temps, todo, pwm, kernel_mode>>

\* the fan loop leaves fan `name` behind
fan_done(name) ==
    /\ todo' = todo \ {name}
    /\ pc' = IF todo' = {} THEN "sleep" ELSE "fans"

\* the fan's input is in temps and its curve is in state.curves
fan_resolves(name) ==
    LET fan == ConfigOf(state.config).fans[name]
    IN fan.input \in DOMAIN temps /\ fan.curve \in DOMAIN state.curves

\* curve_lerp (main.rs 186) panics for the fan in some build
fan_lerp_panics(name, overflow_checks) ==
    LET fan == ConfigOf(state.config).fans[name]
    IN curve_lerp_panics(temps[fan.input], state.curves[fan.curve], overflow_checks)

\* a skip that leaves the fan loop: `break` for `continue`
FanSkip_break(name) ==
    /\ pc = "fans" /\ name \in todo
    /\ ~fan_resolves(name)
    /\ todo' = {}
    /\ pc' = "sleep"
    /\ actuation' = [fan |-> name, kind |-> "skipped", current |-> 0, target |-> 0,
                     new_speed |-> 0]
    /\ UNCHANGED <<probe, stop, reload, disk, state, old_config, new_config, temps, enable, pwm,
                   kernel_mode, last_event, ticks_after_stop>>

\* main.rs 168-185: the fan's input or curve is missing: warn and `continue`
FanSkip(name) ==
    /\ pc = "fans" /\ name \in todo
    /\ ~fan_resolves(name)
    /\ fan_done(name)
    /\ actuation' = [fan |-> name, kind |-> "skipped", current |-> 0, target |-> 0,
                     new_speed |-> 0]
    /\ UNCHANGED <<probe, stop, reload, disk, state, old_config, new_config, temps, enable, pwm,
                   kernel_mode, last_event, ticks_after_stop>>

\* main.rs 186-202: target from the curve, current from pwmN, rate limit,
\* and the write when the delta is large enough
FanControl(name) ==
    /\ pc = "fans" /\ name \in todo
    /\ fan_resolves(name)
    /\ \E overflow_checks \in BOOLEAN : ~fan_lerp_panics(name, overflow_checks)
    /\ name \in DOMAIN state.fans
    /\ LET fan           == ConfigOf(state.config).fans[name]
           target_speed  == curve_lerp(temps[fan.input], state.curves[fan.curve])
           handle        == state.fans[name]
           current_speed == get_speed(handle, pwm)
           r == rate_limit(current_speed, target_speed, state.min_change, state.max_change)
       IN /\ r.kind # "unreachable"
          /\ pwm' = IF r.kind = "write" THEN set_speed(handle, pwm, r.new_speed) ELSE pwm
          /\ actuation' = [fan |-> name, kind |-> r.kind, current |-> current_speed,
                           target |-> target_speed, new_speed |-> r.new_speed]
    /\ fan_done(name)
    /\ UNCHANGED <<probe, stop, reload, disk, state, old_config, new_config, temps, enable,
                   kernel_mode, last_event, ticks_after_stop>>

\* main.rs 190, 202, 226-229: get_speed or set_speed fails; `?` returns the
\* error, `state` is dropped and main goes to sleep RETRY_MS
FanIoErr(name) ==
    /\ pc = "fans" /\ name \in todo
    /\ fan_resolves(name)
    /\ \E overflow_checks \in BOOLEAN : ~fan_lerp_panics(name, overflow_checks)
    /\ name \in DOMAIN state.fans
    /\ enable' = drop_fans(enable, state.fans)
    /\ state' = NoState
    /\ pc' = "retry"
    /\ todo' = {}
    /\ temps' = EmptyMap
    /\ actuation' = NoActuation
    /\ last_event' = Event("fan_error")
    /\ UNCHANGED <<probe, stop, reload, disk, old_config, new_config, pwm, kernel_mode,
                   ticks_after_stop>>

\* main.rs 186, 76, 84: curve_lerp panics; the panic unwinds main_loop and
\* main, dropping `state`
FanPanic(name) ==
    /\ pc = "fans" /\ name \in todo
    /\ fan_resolves(name)
    /\ \E overflow_checks \in BOOLEAN : fan_lerp_panics(name, overflow_checks)
    /\ enable' = drop_fans(enable, state.fans)
    /\ state' = NoState
    /\ pc' = "panicked"
    /\ todo' = {}
    /\ temps' = EmptyMap
    /\ actuation' = NoActuation
    /\ last_event' = NoEvent
    /\ UNCHANGED <<probe, stop, reload, disk, old_config, new_config, pwm, kernel_mode,
                   ticks_after_stop>>

\* main.rs 205: the poll_period sleep ends; the iteration's locals are gone
Sleep ==
    /\ pc = "sleep"
    /\ pc' = "loop"
    /\ temps' = EmptyMap
    /\ todo' = {}
    /\ actuation' = NoActuation
    /\ UNCHANGED <<probe, stop, reload, disk, state, old_config, new_config, enable, pwm,
                   kernel_mode, last_event, ticks_after_stop>>

\* main.rs 217-218: SIGTERM or SIGINT sets the stop flag
SigStop ==
    /\ ~Terminated /\ ~stop
    /\ stop' = TRUE
    /\ UNCHANGED <<probe, pc, reload, disk, state, old_config, new_config, temps, todo, enable,
                   pwm, kernel_mode, actuation, last_event, ticks_after_stop>>

\* main.rs 220-221: SIGHUP or SIGUSR1 sets the reload flag
SigReload ==
    /\ ~Terminated /\ ~reload
    /\ reload' = TRUE
    /\ UNCHANGED <<probe, pc, stop, disk, state, old_config, new_config, temps, todo, enable,
                   pwm, kernel_mode, actuation, last_event, ticks_after_stop>>

\* config.rs 62: somebody rewrites /etc/whoosh.toml
EditConfig ==
    /\ ~Terminated
    /\ \E d \in DiskValues : d # disk /\ disk' = d
    /\ UNCHANGED <<probe, pc, stop, reload, state, old_config, new_config, temps, todo, enable,
                   pwm, kernel_mode, actuation, last_event, ticks_after_stop>>

\* the steps of the daemon itself
Daemon ==
    \/ MainExit
    \/ MainLoopStart
    \/ MainLoopStartErr
    \/ RetryWait
    \/ LoopExit
    \/ LoopEnter
    \/ NoReload
    \/ ReloadLoadErr
    \/ ReloadDropFans
    \/ ReloadNewState
    \/ ReloadRevert
    \/ ReloadPropagate
    \/ TickSensorErr
    \/ TickRead
    \/ TickPanic
    \/ \E name \in todo : FanSkip(name)
    \/ \E name \in todo : FanControl(name)
    \/ \E name \in todo : FanIoErr(name)
    \/ \E name \in todo : FanPanic(name)
    \/ Sleep

\* the steps of its environment
Environment == SigStop \/ SigReload \/ EditConfig

Next == Daemon \/ Environment

Spec == Init /\ [][Next]_vars

\* the main thread is always scheduled again
FairSpec == Init /\ [][Next]_vars /\ WF_vars(Daemon)

-----------------------------------------------------------------------------
(* curve_lerp on its own: a curve as parse_curves can return it, two        *)
(* readings, and the build's overflow checks on or off.                     *)

\* the temps of a curve increase strictly along the sequence
StrictTemps(curve) == \A i \in 1..(Len(curve) - 1) : curve[i].temp < curve[i + 1].temp

\* the Points parse_curves makes of the point_specs
ProbePoints == {parse_point(<<t, p>>) : t \in CurveDegrees, p \in CurvePercents}

\* the non-empty curves of at most MaxPoints Points that keep the Curve invariant
ProbeCurves == UNION {{c \in [1..n -> ProbePoints] : StrictTemps(c)} : n \in 1..MaxPoints}

NoOut == [panic |-> FALSE, value |-> 0]

\* the daemon has not been started
Idle ==
    /\ pc = "main"
    /\ stop = FALSE
    /\ reload = FALSE
    /\ disk = Broken
    /\ state = NoState
    /\ old_config = "none"
    /\ new_config = "none"
    /\ temps = EmptyMap
    /\ todo = {}
    /\ enable = [p \in PwmPaths |-> 2]
    /\ pwm = [p \in PwmPaths |-> 50]
    /\ kernel_mode = enable
    /\ actuation = NoActuation
    /\ last_event = NoEvent
    /\ ticks_after_stop = 0

daemon_vars == <<pc, stop, reload, disk, state, old_config, new_config, temps, todo,
                 enable, pwm, kernel_mode, actuation, last_event, ticks_after_stop>>

LerpInit ==
    /\ Idle
    /\ \E curve \in ProbeCurves : \E t1, t2 \in ProbeTemps : \E oc \in BOOLEAN :
          /\ t1 <= t2
          /\ probe = [stage |-> "lerp_in", curve |-> curve, t1 |-> t1, t2 |-> t2,
                      overflow_checks |-> oc, out1 |-> NoOut, out2 |-> NoOut]

\* main.rs 186: curve_lerp is called with each of the two readings
ProbeLerp ==
    /\ probe.stage = "lerp_in"
    /\ probe' = [probe EXCEPT
                   !.stage = "lerp_out",
                   !.out1 = lerp_call(probe.t1, probe.curve, probe.overflow_checks),
                   !.out2 = lerp_call(probe.t2, probe.curve, probe.overflow_checks)]
    /\ UNCHANGED daemon_vars

LerpNext == ProbeLerp

LerpSpec == LerpInit /\ [][LerpNext]_vars

-----------------------------------------------------------------------------
(* The fan loop on its own: one fan, ticks with a constant reading (so a    *)
(* constant target), and no reload, stop or error.                          *)

\* the handle of the one fan
ProbeFan == [path_prefix |-> <<1, 1>>, initial_mode |-> 2]

ConvergeInit ==
    /\ Idle
    /\ \E speed \in ProbeSpeeds : \E target \in ProbeTargets :
       \E minp \in MinChangePercents : \E maxp \in MaxChangePercents :
          probe = [stage |-> "fan",
                   files |-> [p \in {ProbeFan.path_prefix} |-> speed],
                   target |-> target,
                   min_change |-> to_pwm_scale(minp),
                   max_change |-> to_pwm_scale(maxp),
                   kind |-> "none", before |-> speed, writes |-> 0]

\* main.rs 186-205: one tick of the fan: read pwmN, rate-limit, write
ProbeTick ==
    /\ probe.stage = "fan"
    /\ LET current_speed == get_speed(ProbeFan, probe.files)
           r == rate_limit(current_speed, probe.target, probe.min_change, probe.max_change)
       IN /\ r.kind # "unreachable"
          /\ probe' = [probe EXCEPT
                         !.files = IF r.kind = "write"
                                   THEN set_speed(ProbeFan, probe.files, r.new_speed)
                                   ELSE probe.files,
                         !.kind = r.kind,
                         !.before = current_speed,
                         !.writes = IF r.kind = "write" THEN @ + 1 ELSE @]
    /\ UNCHANGED daemon_vars

ConvergeNext == ProbeTick

\* the loop of main_loop goes on to its next tick
ConvergeSpec == ConvergeInit /\ [][ConvergeNext]_vars /\ WF_vars(ProbeTick)

-----------------------------------------------------------------------------
(* Claims.                                                                 *)

\* C1: a step that constructs a fan handle stores what pwmN_enable held
\* as initial_mode and leaves 1 in the file; a step that drops a handle
\* (clean shutdown, reload, error return) leaves in the file the value read
\* at that handle's construction.
C1_DropRestoresMode ==
    [][ /\ \A n \in DOMAIN Handles' :
             n \notin DOMAIN Handles =>
                /\ Handles'[n].initial_mode = enable[Handles'[n].path_prefix]
                /\ enable'[Handles'[n].path_prefix] = 1
        /\ \A n \in DOMAIN Handles :
             n \notin DOMAIN Handles' =>
                enable'[Handles[n].path_prefix] = Handles[n].initial_mode ]_vars

\* C1 witness: the daemon has left by clean shutdown after ticks that wrote
\* a speed and one tick that started after stop, and every enable file holds
\* its original mode
C1_Witness ==
    /\ pc = "exited"
    /\ ticks_after_stop = 1
    /\ pwm \notin InitPwm
    /\ \A p \in PwmPaths : enable[p] = kernel_mode[p] /\ enable[p] # 1

\* C2: every step that changes a pwmN file changes it by at most
\* max_change_pct * 255 / 100 of the configuration in force.
C2_StepBounded ==
    [][ \A p \in PwmPaths :
          pwm'[p] # pwm[p] =>
             /\ Running
             /\ Abs(pwm'[p] - pwm[p]) <= (ConfigOf(state.config).max_change * 255) \div 100 ]_vars

\* C2 witness: a fan further than max_change from its target was moved by
\* exactly max_change
C2_Witness ==
    /\ actuation.kind = "write"
    /\ state.config = "A"
    /\ Abs(actuation.target - actuation.current) > 25
    /\ Abs(pwm[state.fans[actuation.fan].path_prefix] - actuation.current) = 25

\* C3: when the fan loop has handled a fan whose target (the curve at its
\* input temperature) is within min_change_pct * 255 / 100 of the speed read,
\* edge included, it has not written and the file holds the speed read; it
\* has written only when the distance exceeds min_change.
C3_DeadBand ==
    actuation.kind \in {"small", "write"} =>
        LET fan    == ConfigOf(state.config).fans[actuation.fan]
            target == curve_lerp(temps[fan.input], state.curves[fan.curve])
            delta  == target - actuation.current
            min_change == (ConfigOf(state.config).min_change * 255) \div 100
        IN /\ Abs(delta) <= min_change =>
                /\ actuation.kind = "small"
                /\ pwm[state.fans[actuation.fan].path_prefix] = actuation.current
           /\ actuation.kind = "write" => Abs(delta) > min_change

\* C3 witness: a fan exactly min_change (12) away from its target was left alone
C3_Witness ==
    /\ actuation.kind = "small"
    /\ state.config = "A"
    /\ Abs(actuation.target - actuation.current) = 12
    /\ pwm[state.fans[actuation.fan].path_prefix] = actuation.current

\* C4: when the fan loop has written a fan, the file holds
\* current + sign(delta) * min(|delta|, max_change), a value in 0..255 that
\* lies between the speed read and the target.
C4_WrittenValue ==
    actuation.kind = "write" =>
        LET fan    == ConfigOf(state.config).fans[actuation.fan]
            target == curve_lerp(temps[fan.input], state.curves[fan.curve])
            delta  == target - actuation.current
            max_change == (ConfigOf(state.config).max_change * 255) \div 100
            step   == IF Abs(delta) < max_change THEN Abs(delta) ELSE max_change
            value  == IF delta > 0 THEN actuation.current + step
                      ELSE actuation.current - step
        IN /\ pwm[state.fans[actuation.fan].path_prefix] = value
           /\ value \in 0..255
           /\ \/ actuation.current <= value /\ value <= target
              \/ target <= value /\ value <= actuation.current

\* C4 witness: target 127, current 50, max_change 25: 75 is written
C4_Witness ==
    /\ actuation.kind = "write"
    /\ actuation.target = 127
    /\ actuation.current = 50
    /\ state.max_change = 25
    /\ pwm[state.fans[actuation.fan].path_prefix] = 75

\* C5: after the fans are reset in a reload and before the new State is
\* built no handle is alive and every enable file holds the kernel's mode;
\* hence every handle, after any reloads, has the kernel's mode as its
\* initial_mode.
C5_DropBeforeNew ==
    /\ pc = "reload_dropped" =>
          /\ DOMAIN Handles = {}
          /\ \A p \in PwmPaths : enable[p] = kernel_mode[p]
    /\ \A n \in DOMAIN Handles :
          /\ Handles[n].initial_mode = kernel_mode[Handles[n].path_prefix]
          /\ Handles[n].initial_mode # 1

\* C5 witness: a reload has succeeded and a handle of the new State is on a
\* pwm file a fan of the old configuration used
C5_Witness ==
    /\ pc = "tick"
    /\ last_event.kind = "reloaded"
    /\ \E n \in DOMAIN Handles : \E m \in DOMAIN ConfigOf(last_event.old).fans :
          LET old == ConfigOf(last_event.old).fans[m] IN
          /\ Handles[n].path_prefix = <<hwmon_index(old.hwmon_name), old.index>>
          /\ Handles[n].initial_mode = kernel_mode[Handles[n].path_prefix]
          /\ enable[Handles[n].path_prefix] = 1

\* C6: a step that ends a reload attempt in the loop (the load failed, the new
\* State was built, or the old one was rebuilt) leaves the reload flag false.
C6_ReloadCleared ==
    [][ (pc \in {"iter", "reload_dropped"} /\ reload /\ pc' \in {"loop", "tick"})
            => ~reload' ]_vars

\* C7: a reload whose load fails leaves the State and the fan handles as they
\* were, and, while the file stays broken and stop is not set, a tick follows.
C7_FailedLoadKeepsTicking ==
    /\ [][ (pc = "iter" /\ reload /\ disk = Broken /\ pc' # pc)
              => (state' = state /\ enable' = enable) ]_vars
    /\ [](last_event.kind = "load_failed" => <>(pc = "tick" \/ disk # Broken \/ stop))

\* C8: when a reload's new State fails and the old configuration is rebuilt,
\* the loop goes on to the tick with the old configuration's sensors, curves
\* and fans, each of those fans in manual mode and every other pwm file in
\* the kernel's mode; the reload ends main_loop with an error only when the
\* rebuild failed too, and then no handle is left.
C8_RevertToOld ==
    [][ (pc = "reload_dropped" /\ pc' # pc) =>
          /\ pc' \in {"tick", "retry"}
          /\ pc' = "tick" =>
                /\ last_event'.kind \in {"reloaded", "reverted"}
                /\ state'.config \in {old_config, new_config}
          /\ last_event'.kind = "reverted" =>
                /\ pc' = "tick"
                /\ state'.config = old_config
                /\ state'.sensor_paths = find_sensors(ConfigOf(old_config)).sensor_paths
                /\ state'.curves = parse_curves(ConfigOf(old_config)).curves
                /\ DOMAIN state'.fans = DOMAIN ConfigOf(old_config).fans
                /\ \A n \in DOMAIN state'.fans : enable'[state'.fans[n].path_prefix] = 1
                /\ \A p \in PwmPaths :
                      (\A n \in DOMAIN state'.fans : state'.fans[n].path_prefix # p)
                          => enable'[p] = kernel_mode[p]
          /\ pc' = "retry" =>
                /\ last_event'.kind = "propagated"
                /\ ~Running'
                /\ \A p \in PwmPaths : enable'[p] = kernel_mode[p] ]_vars

\* C8 witness: a reload has been reverted and the tick is about to run on the
\* old configuration, whose fans are in manual mode
C8_Witness ==
    /\ pc = "tick"
    /\ last_event.kind = "reverted"
    /\ last_event.new # last_event.old
    /\ state.config = last_event.old
    /\ \A n \in DOMAIN state.fans : enable[state.fans[n].path_prefix] = 1

\* C9: once stop is set at most one more tick starts, and the daemon
\* eventually leaves through main's Ok(()) with no handle alive and every
\* enable file restored.
C9_StopExitsCleanly ==
    /\ [](stop => ticks_after_stop <= 1)
    /\ stop ~> (pc = "exited" /\ ~Running /\ \A p \in PwmPaths : enable[p] = kernel_mode[p])

\* C10: a tick that ends in a sensor error writes no pwm file, drops every
\* handle (each enable file restored) and leaves main in its RETRY_MS sleep;
\* after the sleep main tests stop, leaves if it is set and otherwise enters
\* main_loop with a fresh load of the configuration file.
C10_SensorErrorRestarts ==
    [][ /\ (pc = "tick" /\ pc' = "retry") =>
              /\ pwm' = pwm
              /\ ~Running'
              /\ \A p \in PwmPaths : enable'[p] = kernel_mode[p]
        /\ (pc = "retry" /\ pc' # pc) =>
              /\ pc' = "main"
              /\ ~Running'
              /\ enable' = enable
        /\ (pc = "main" /\ pc' # pc) =>
              IF stop THEN pc' = "exited"
              ELSE \/ pc' = "retry" /\ ~Running'
                   \/ pc' = "loop" /\ Config_load(disk).ok /\ state'.config = disk ]_vars

\* C10 witness: a sensor error has sent main to its RETRY_MS sleep after
\* earlier ticks wrote a speed; no handle is alive
C10_Witness ==
    /\ pc = "retry"
    /\ last_event.kind = "sensor_error"
    /\ ~Running
    /\ pwm \notin InitPwm
    /\ \A p \in PwmPaths : enable[p] = kernel_mode[p]

\* the window of the probe's curve that holds reading t, 0 when none does
WindowOf(t) ==
    LET hits == {i \in 1..(Len(probe.curve) - 1) :
                    probe.curve[i].temp <= t /\ t < probe.curve[i + 1].temp}
    IN IF hits = {} THEN 0 ELSE CHOOSE i \in hits : TRUE

\* C11: for a curve with strictly increasing temps and a reading inside a
\* window (Pi, Pi+1), curve_lerp returns
\* Pi.pwm + (temp - Pi.temp) * (Pi+1.pwm - Pi.pwm) / (Pi+1.temp - Pi.temp)
\* in signed integer arithmetic, the division truncating toward zero, whether
\* the pwm rises or falls across the window.
C11_LerpFormula ==
    (probe.stage = "lerp_out" /\ WindowOf(probe.t1) # 0) =>
        LET lower == probe.curve[WindowOf(probe.t1)]
            upper == probe.curve[WindowOf(probe.t1) + 1]
        IN /\ ~probe.out1.panic
           /\ probe.out1.value =
                 lower.fan_speed
                 + TruncDiv((probe.t1 - lower.temp) * (upper.fan_speed - lower.fan_speed),
                            upper.temp - lower.temp)

\* the speeds of a curve increase strictly along the sequence
StrictSpeeds(curve) ==
    \A i \in 1..(Len(curve) - 1) : curve[i].fan_speed < curve[i + 1].fan_speed

\* C12: for a curve whose temps and speeds increase strictly and readings
\* t1 < t2, in the same window, in different windows or outside the curve's
\* range, curve_lerp(t1) <= curve_lerp(t2).
C12_LerpMonotone ==
    (probe.stage = "lerp_out" /\ StrictSpeeds(probe.curve) /\ probe.t1 < probe.t2) =>
        /\ ~probe.out1.panic
        /\ ~probe.out2.panic
        /\ probe.out1.value <= probe.out2.value

\* C12 witness: a rising curve of three points, t1 inside its first window,
\* t2 inside its second, and a lower speed for t1
C12_Witness ==
    /\ probe.stage = "lerp_out"
    /\ Len(probe.curve) = 3
    /\ StrictSpeeds(probe.curve)
    /\ WindowOf(probe.t1) = 1
    /\ probe.t1 > probe.curve[1].temp
    /\ WindowOf(probe.t2) = 2
    /\ probe.out1.value > probe.curve[1].fan_speed
    /\ probe.out1.value < probe.out2.value

\* C13: for a non-empty curve with strictly increasing temps curve_lerp
\* returns the first point's speed for every reading at or below the first
\* temp and the last point's speed for every reading at or above the last.
C13_Saturation ==
    probe.stage = "lerp_out" =>
        /\ probe.t1 <= probe.curve[1].temp =>
              /\ ~probe.out1.panic
              /\ probe.out1.value = probe.curve[1].fan_speed
        /\ probe.t1 >= probe.curve[Len(probe.curve)].temp =>
              /\ ~probe.out1.panic
              /\ probe.out1.value = probe.curve[Len(probe.curve)].fan_speed

\* the configuration the State was built from
Cfg == ConfigOf(state.config)

\* the readings of the tick: temps without the composites
sensor_readings == [n \in DOMAIN state.sensor_paths |-> temps[n]]

\* C14: when a tick has evaluated its composites, temps is what the
\* evaluation in the order of declaration gives: a composite sees the value
\* of a composite among its inputs exactly when that one is declared first,
\* on every tick and every run.
C14_DeclarationOrder ==
    pc \in {"fans", "sleep"} =>
        temps = eval_composites(Cfg, Cfg.declared, 1, sensor_readings).temps

RECURSIVE SumOf(_)
SumOf(seq) == IF seq = <<>> THEN 0 ELSE Head(seq) + SumOf(Tail(seq))

\* the truncating mean
MeanOf(seq) == TruncDiv(SumOf(seq), Len(seq))

\* what a Mean or MeanMax composite is to insert, given temps
mean_value(composite, tmap) ==
    LET present == SelectSeq(composite.inputs, LAMBDA n : n \in DOMAIN tmap)
        inputs  == [k \in 1..Len(present) |-> tmap[present[k]]]
        above   == SelectSeq(inputs, LAMBDA v : v >= composite.threshold)
    IN IF composite.mode = "meanmax" /\ above # <<>> THEN MeanOf(above) ELSE MeanOf(inputs)

\* C15: a tick whose sensors were all read goes on to the fan loop, and
\* every Mean or MeanMax composite with a sensor among its inputs has the
\* truncating mean of its present inputs (for MeanMax: of those at or above
\* the threshold, if any) under its name.
C15_MeanInserted ==
    [][ (pc = "tick" /\ pc' \notin {"tick", "retry"}) =>
          /\ pc' \in {"fans", "sleep"}
          /\ \A n \in DOMAIN Cfg.composites :
                (/\ Cfg.composites[n].mode \in {"mean", "meanmax"}
                 /\ \E k \in 1..Len(Cfg.composites[n].inputs) :
                       Cfg.composites[n].inputs[k] \in DOMAIN state.sensor_paths)
                => /\ n \in DOMAIN temps'
                   /\ temps'[n] = mean_value(Cfg.composites[n], temps') ]_vars

\* the composites the tick evaluates before composite n
Before(n) ==
    {state.composites[j] : j \in {j \in 1..Len(state.composites) :
        \E k \in (j + 1)..Len(state.composites) : state.composites[k] = n}}

\* the inputs of composite n that are in temps when the tick evaluates it
Present(n) ==
    {i \in {Cfg.composites[n].inputs[k] : k \in 1..Len(Cfg.composites[n].inputs)} :
        \/ i \in DOMAIN state.sensor_paths
        \/ i \in Before(n) /\ i \in DOMAIN temps}

\* C16: when a tick has evaluated its composites, a Max composite none of
\* whose inputs was present has no entry, and any other has the maximum of
\* its present inputs; a fan keyed on a composite is skipped when the entry
\* is missing and otherwise driven by the curve at the entry's value.
C16_MaxComposite ==
    pc \in {"fans", "sleep"} =>
        /\ \A n \in DOMAIN Cfg.composites :
              Cfg.composites[n].mode = "max" =>
                 IF Present(n) = {} THEN n \notin DOMAIN temps
                 ELSE /\ n \in DOMAIN temps
                      /\ \E i \in Present(n) : temps[n] = temps[i]
                      /\ \A i \in Present(n) : temps[i] <= temps[n]
        /\ (actuation.fan # "none"
             /\ Cfg.fans[actuation.fan].input \in DOMAIN Cfg.composites) =>
              IF Cfg.fans[actuation.fan].input \in DOMAIN temps
              THEN /\ actuation.kind \in {"small", "write"}
                   /\ actuation.target =
                         curve_lerp(temps[Cfg.fans[actuation.fan].input],
                                    state.curves[Cfg.fans[actuation.fan].curve])
              ELSE actuation.kind = "skipped"

\* C16 witness: a = 25000 and b = 45000 give c = 45000, the name nothing
\* provides is dropped, d is c, and the fan keyed on d was driven to the
\* curve's value at 45000
C16_Witness ==
    /\ pc = "sleep"
    /\ state.config = "B"
    /\ DOMAIN temps = {"a", "b", "c", "d"}
    /\ temps["a"] = 25000 /\ temps["b"] = 45000
    /\ temps["c"] = 45000 /\ temps["d"] = 45000
    /\ actuation.fan = "f1"
    /\ actuation.kind = "write"
    /\ actuation.target = 127

\* C17: the fan loop handles one fan of the tick at a time and leaves the
\* others to be handled; a fan whose input or curve is missing is skipped
\* without a read or write of its pwm file and without ending the tick; a
\* fan whose input and curve are there is read and rate-limited; the tick
\* fails only on a fan that was not skipped; the next tick starts with every
\* fan of the configuration again.
C17_SkipOnlyThisTick ==
    [][ /\ (pc = "fans" /\ pc' \in {"fans", "sleep"} /\ todo' # todo) =>
              \E n \in todo :
                 /\ todo' = todo \ {n}
                 /\ pc' = "sleep" <=> todo' = {}
                 /\ actuation'.fan = n
                 /\ state' = state
                 /\ IF fan_resolves(n) THEN actuation'.kind \in {"small", "write"}
                    ELSE actuation'.kind = "skipped" /\ pwm' = pwm
        /\ (pc = "fans" /\ pc' # pc /\ \A n \in todo : ~fan_resolves(n)) =>
              pc' \in {"fans", "sleep"}
        /\ (pc = "tick" /\ pc' \in {"fans", "sleep"}) => todo' = DOMAIN Cfg.fans ]_vars

\* C17 witness: in one tick the fan with the undefined curve was skipped and
\* the other fan was written afterwards
C17_Witness ==
    /\ pc = "sleep"
    /\ state.config = "A"
    /\ todo = {}
    /\ ~fan_resolves("f2")
    /\ actuation.fan = "f1"
    /\ actuation.kind = "write"

\* C18: every curve of a State is non-empty and its temps increase strictly
\* along the sequence.
C18_CurveInvariant ==
    Running =>
        \A n \in DOMAIN state.curves :
            Len(state.curves[n]) > 0 /\ StrictTemps(state.curves[n])

\* C19: while main_loop runs outside a reload, and so whenever the fan loop
\* runs, the names of the open handles are the names of the configuration's
\* fans.
C19_FansMatchConfig ==
    pc \in {"loop", "iter", "tick", "fans", "sleep"} =>
        DOMAIN state.fans = DOMAIN Cfg.fans

\* C19 witness: the fan loop runs on the configuration of two fans, with a
\* handle for each, after another configuration drove the first output (127
\* is a speed only the configuration without rate limit writes)
C19_Witness ==
    /\ pc = "fans"
    /\ todo = {"f1", "f2"}
    /\ state.config = "A"
    /\ pwm[<<1, 1>>] = 127
    /\ DOMAIN state.fans = {"f1", "f2"}
    /\ \A n \in DOMAIN state.fans : enable[state.fans[n].path_prefix] = 1

\* how far the fan of the fan loop taken on its own is from its target
ProbeDistance == Abs(probe.target - get_speed(ProbeFan, probe.files))

\* C20: with a constant target, the daemon the only writer and
\* max_change >= 1, every write brings the speed strictly closer to the
\* target, after finitely many ticks the speed is within min_change of the
\* target, and from then on the file is not written.
C20_Converges ==
    /\ [](probe.kind = "write" => ProbeDistance < Abs(probe.target - probe.before))
    /\ <>[](ProbeDistance <= probe.min_change)
    /\ [][ProbeDistance <= probe.min_change =>
             (probe'.files = probe.files /\ probe'.kind # "write")]_vars

\* C20 witness: three writes of max_change each (50, 75, 100, 125) have
\* brought the fan within min_change of the target 127, and the tick after
\* them wrote nothing
C20_Witness ==
    /\ probe.stage = "fan"
    /\ probe.target = 127
    /\ probe.min_change = 12
    /\ probe.max_change = 25
    /\ probe.writes = 3
    /\ probe.kind = "small"
    /\ get_speed(ProbeFan, probe.files) = 125

====
